---- MODULE Spec2Model ----
(* Model of solana-shred-perf (src/src/main.rs): two UDP port listeners and  *)
(* a timer task feed one bounded mpsc channel; a single processor task owns  *)
(* ProcessorState and handles ShredReceived, Cleanup and StatsTick events.   *)
(* Time is the monotonic clock behind Instant, counted in ticks of its       *)
(* resolution; a Duration is a natural number of ticks and Duration / u32    *)
(* truncates to a whole tick.  The two timer periods are scaled down to a    *)
(* few ticks: only their ratio to the arrival times matters.                 *)
(* Spec is the program with a budget of datagrams; LiveSpec is a burst of    *)
(* arrivals without end under fair scheduling; TimelySpec lets the clock     *)
(* advance only when no work is pending; AvgSpec applies the average of     *)
(* report_stats to sample counts that no run of the model can accumulate.   *)
EXTENDS Integers, Sequences, FiniteSets, TLC

(* ---------------------------------------------------------------- bounds *)
MaxTime == 2          \* the clock stops advancing here
NumIds == 1           \* distinct ShredId values the decoder can produce
MaxArrivals == 3      \* datagrams received by both listeners together
Timeout == 1          \* args.timeout_secs, in ticks (time::interval panics on 0)
TimelyTimeout == 3    \* args.timeout_secs, in ticks, when every task keeps up with the clock
TimelyMaxTime == 5    \* the clock stops advancing here when every task keeps up with it
MaxHigh == 3          \* largest high half of a sample count examined on its own
MaxLow == 15          \* largest low half of a sample count examined on its own

(* ------------------------------------------------------------- constants *)
QueueCap == 1         \* mpsc::channel(4096), scaled down so that the channel fills
StatsPeriod == 10     \* period of stats_interval (Duration::from_secs(10)), in ticks

Ports == {0, 1}
ShredIds == 1 .. NumIds
Instants == 0 .. MaxTime
NoId == 0

VARIABLES
    now,          \* the monotonic clock read by Instant::now()
    running,      \* main is still inside its select!
    listener,     \* per port: position of the listener task and the event it holds
    arrivals,     \* datagrams received so far by the two sockets
    timer,        \* position of the timer task and the deadlines of its intervals
    queue,        \* the mpsc channel, oldest event first
    state,        \* ProcessorState
    emitted,      \* number of "delay" lines logged by process_shred
    snapshot,     \* the stats line logged by the last handler call, if any
    seenOn,       \* history: ids the processor has handled from each port
    matchesOf,    \* history: matches counted per id
    lastMatchAt,  \* history: clock value of the last match per id (-1: none)
    sumDelays,    \* history: running sum of every delay sample counted
    lastOutcome,  \* history: what the processor's last handler call did
    timeout_secs, \* args.timeout_secs, in ticks
    listenerLog,  \* number of lines the listener tasks have logged
    firstSeen,    \* history: per port and id, timestamp of the first event handled (-1: none)
    discarded,    \* history: some arrival has been discarded as a duplicate
    probe         \* the sample count and sum an average is computed from, and its outcome

vars == <<now, running, listener, arrivals, timer, queue, state, emitted,
          snapshot, seenOn, matchesOf, lastMatchAt, sumDelays, lastOutcome,
          timeout_secs, listenerLog, firstSeen, discarded, probe>>

(* ------------------------------------------------------- ProcessorEvent *)
ShredReceived(port_id, shred_id, timestamp) ==
    [kind |-> "ShredReceived", port_id |-> port_id, shred_id |-> shred_id,
     timestamp |-> timestamp]

CleanupEvent == [kind |-> "Cleanup", port_id |-> 0, shred_id |-> NoId, timestamp |-> 0]

StatsTickEvent == [kind |-> "StatsTick", port_id |-> 0, shred_id |-> NoId, timestamp |-> 0]

(* ------------------------------------------------------- pure functions *)
\* Instant::duration_since saturates to zero when `earlier` is later.
DurationSince(later, earlier) == IF later >= earlier THEN later - earlier ELSE 0

RECURSIVE SumSeq(_)
SumSeq(s) == IF s = <<>> THEN 0 ELSE Head(s) + SumSeq(Tail(s))

\* `len as u32`: a usize below 2^32 is unchanged by the cast, and every
\* length the model can reach (and every integer TLC represents) is below it.
AsU32(n) == n

Restrict(m, keep) == [k \in {x \in DOMAIN m : keep[x]} |-> m[k]]

Insert(m, k, v) == [x \in DOMAIN m \cup {k} |-> IF x = k THEN v ELSE m[x]]

OwnMap(st, port_id) == IF port_id = 0 THEN st.port0_data ELSE st.port1_data

OtherMap(st, port_id) == IF port_id = 0 THEN st.port1_data ELSE st.port0_data

\* faulty variant: the insert goes to the other port's map
WithOwnMapCrossed(st, port_id, m) ==
    IF port_id = 0 THEN [st EXCEPT !.port1_data = m] ELSE [st EXCEPT !.port0_data = m]

WithOwnMap(st, port_id, m) ==
    IF port_id = 0 THEN [st EXCEPT !.port0_data = m] ELSE [st EXCEPT !.port1_data = m]

\* faulty variant: the arguments of duration_since exchanged
MatchDelaySwapped(timestamp, other_time) == DurationSince(other_time, timestamp)

\* the delay process_shred computes on a match
MatchDelay(timestamp, other_time) == DurationSince(timestamp, other_time)

\* does process_shred count a match for this event in this state
IsMatch(st, port_id, shred_id) ==
    /\ shred_id \notin DOMAIN OwnMap(st, port_id)
    /\ shred_id \in DOMAIN OtherMap(st, port_id)

\* faulty variant: no contains_key check, every arrival is inserted and matched
process_shred_no_dedup(st, port_id, shred_id, timestamp) ==
    LET ins == WithOwnMap(st, port_id, Insert(OwnMap(st, port_id), shred_id, timestamp))
    IN  IF shred_id \in DOMAIN OtherMap(st, port_id)
        THEN [ins EXCEPT
                !.matched_pairs = @ + 1,
                !.delays = Append(@, MatchDelay(timestamp, OtherMap(st, port_id)[shred_id]))]
        ELSE ins

\* faulty variant: a duplicate arrival refreshes the stored timestamp
process_shred_refresh(st, port_id, shred_id, timestamp) ==
    LET ins == WithOwnMap(st, port_id, Insert(OwnMap(st, port_id), shred_id, timestamp))
    IN  IF shred_id \in DOMAIN OwnMap(st, port_id)
        THEN ins
        ELSE IF shred_id \in DOMAIN OtherMap(st, port_id)
             THEN [ins EXCEPT
                     !.matched_pairs = @ + 1,
                     !.delays = Append(@, MatchDelay(timestamp, OtherMap(st, port_id)[shred_id]))]
             ELSE ins

\* faulty variant: the port-0 arm pushes the delay but does not count the match
process_shred_uncounted(st, port_id, shred_id, timestamp) ==
    IF shred_id \in DOMAIN OwnMap(st, port_id)
    THEN st
    ELSE LET ins == WithOwnMap(st, port_id, Insert(OwnMap(st, port_id), shred_id, timestamp))
         IN  IF shred_id \in DOMAIN OtherMap(st, port_id)
             THEN [ins EXCEPT
                     !.matched_pairs = IF port_id = 0 THEN @ ELSE @ + 1,
                     !.delays = Append(@, MatchDelay(timestamp, OtherMap(st, port_id)[shred_id]))]
             ELSE ins

\* faulty variant: a match consumes the pair, removing the id from both maps
process_shred_consumes(st, port_id, shred_id, timestamp) ==
    IF shred_id \in DOMAIN OwnMap(st, port_id)
    THEN st
    ELSE IF shred_id \in DOMAIN OtherMap(st, port_id)
         THEN [st EXCEPT
                 !.port0_data = Restrict(@, [k \in DOMAIN @ |-> k # shred_id]),
                 !.port1_data = Restrict(@, [k \in DOMAIN @ |-> k # shred_id]),
                 !.matched_pairs = @ + 1,
                 !.delays = Append(@, MatchDelay(timestamp, OtherMap(st, port_id)[shred_id]))]
         ELSE WithOwnMap(st, port_id, Insert(OwnMap(st, port_id), shred_id, timestamp))

process_shred(st, port_id, shred_id, timestamp) ==
    IF shred_id \in DOMAIN OwnMap(st, port_id)
    THEN st
    ELSE LET ins == WithOwnMap(st, port_id, Insert(OwnMap(st, port_id), shred_id, timestamp))
         IN  IF shred_id \in DOMAIN OtherMap(st, port_id)
             THEN [ins EXCEPT
                     !.matched_pairs = @ + 1,
                     !.delays = Append(@, MatchDelay(timestamp, OtherMap(st, port_id)[shred_id]))]
             ELSE ins

\* faulty variant: the arguments of duration_since exchanged, so every age reads zero
RetainReversed(m, at, timeout) ==
    Restrict(m, [k \in DOMAIN m |-> DurationSince(m[k], at) < timeout])

Retain(m, at, timeout) ==
    Restrict(m, [k \in DOMAIN m |-> DurationSince(at, m[k]) < timeout])

\* faulty variant: the sweep also clears the delay samples
cleanup_data_resets(st, at, timeout) ==
    [st EXCEPT !.port0_data = Retain(@, at, timeout),
               !.port1_data = Retain(@, at, timeout),
               !.delays = <<>>]

cleanup_data(st, at, timeout) ==
    [st EXCEPT !.port0_data = Retain(@, at, timeout),
               !.port1_data = Retain(@, at, timeout)]

AvgDelay(delays) ==
    IF delays # <<>> THEN SumSeq(delays) \div AsU32(Len(delays)) ELSE 0

\* faulty variant: both sizes are read from port0_data
report_stats_same_port(st) ==
    [valid |-> TRUE,
     port0 |-> Cardinality(DOMAIN st.port0_data),
     port1 |-> Cardinality(DOMAIN st.port0_data),
     matched |-> st.matched_pairs,
     avg_delay |-> AvgDelay(st.delays)]

report_stats(st) ==
    [valid |-> TRUE,
     port0 |-> Cardinality(DOMAIN st.port0_data),
     port1 |-> Cardinality(DOMAIN st.port1_data),
     matched |-> st.matched_pairs,
     avg_delay |-> AvgDelay(st.delays)]

\* the last handler call logged no stats line
NoSnapshot == [valid |-> FALSE, port0 |-> 0, port1 |-> 0, matched |-> 0, avg_delay |-> 0]

\* The length of a Vec is a usize of 64 bits, written here as its two halves
\* of 32 bits: the length is hi * 2^32 + lo.
\* `len as u32` keeps the low 32 bits
CastU32(len) == len.lo

\* Vec::is_empty
IsEmpty(len) == len.hi = 0 /\ len.lo = 0

\* the avg_delay of report_stats, for delays of the given sum and length;
\* Duration / u32 panics on a zero divisor
avg_delay(sum, len) ==
    IF ~IsEmpty(len)
    THEN IF CastU32(len) = 0
         THEN [outcome |-> "panic", avg |-> 0]
         ELSE [outcome |-> "ok", avg |-> sum \div CastU32(len)]
    ELSE [outcome |-> "ok", avg |-> 0]

\* sums of samples an average is examined on
SampleSums == {0, 7, 100}

\* no average is being examined on its own
NoProbe == [hi |-> 0, lo |-> 0, sum |-> 0, outcome |-> "none", avg |-> 0]

(* ------------------------------------------------------------------ Init *)
EmptyMap == [k \in {} |-> 0]

\* the program right after main has spawned its four tasks
Boot ==
    /\ now = 0
    /\ running = TRUE
    /\ listener = [p \in Ports |-> [pc |-> "bind", shred_id |-> NoId, timestamp |-> 0]]
    /\ arrivals = 0
    /\ timer = [pc |-> "select", next_cleanup |-> 0, next_stats |-> 0]
    /\ queue = <<>>
    /\ state = [port0_data |-> EmptyMap, port1_data |-> EmptyMap,
                matched_pairs |-> 0, delays |-> <<>>]
    /\ emitted = 0
    /\ snapshot = NoSnapshot
    /\ seenOn = [p \in Ports |-> {}]
    /\ matchesOf = [i \in ShredIds |-> 0]
    /\ lastMatchAt = [i \in ShredIds |-> -1]
    /\ sumDelays = 0
    /\ lastOutcome = "none"
    /\ listenerLog = 0
    /\ firstSeen = [p \in Ports |-> [i \in ShredIds |-> -1]]
    /\ discarded = FALSE

Init ==
    /\ Boot
    /\ timeout_secs = Timeout
    /\ probe = NoProbe

(* --------------------------------------------------------------- actions *)
engineVars == <<state, emitted, snapshot, seenOn, matchesOf, lastMatchAt, sumDelays,
                lastOutcome, firstSeen, discarded>>

\* what no task of the running program writes: the parsed arguments, and the
\* input of the average computation when it is examined on its own
fixedVars == <<timeout_secs, probe>>

\* the clock advances
Tick ==
    /\ running
    /\ now < MaxTime
    /\ now' = now + 1
    /\ UNCHANGED <<fixedVars, listenerLog, running, listener, arrivals, timer, queue, engineVars>>

\* UdpSocket::bind succeeds: the listener task logs "Listening on port"
BindOk(p) ==
    /\ running
    /\ listener[p].pc = "bind"
    /\ listener' = [listener EXCEPT ![p].pc = "recv"]
    /\ listenerLog' = listenerLog + 1
    /\ UNCHANGED <<fixedVars, now, running, arrivals, timer, queue, engineVars>>

\* UdpSocket::bind fails: the listener task logs and returns
BindFail(p) ==
    /\ running
    /\ listener[p].pc = "bind"
    /\ listener' = [listener EXCEPT ![p].pc = "done"]
    /\ listenerLog' = listenerLog + 1
    /\ UNCHANGED <<fixedVars, now, running, arrivals, timer, queue, engineVars>>

\* ids that some datagram has carried so far: held by a listener, waiting in
\* the channel, or already handled by the processor
UsedIds ==
    {listener[p].shred_id : p \in {q \in Ports : listener[q].pc = "send"}}
    \cup {queue[i].shred_id : i \in {j \in 1 .. Len(queue) : queue[j].kind = "ShredReceived"}}
    \cup seenOn[0] \cup seenOn[1]

\* The ids a new datagram may carry.  ShredId is opaque to the program (it is
\* only hashed and compared), so ids are interchangeable and a datagram carries
\* either an id seen before or the least id not seen yet.
NextIds == {id \in ShredIds : \A k \in 1 .. (id - 1) : k \in UsedIds}

\* a datagram is received and decoded; the event is stamped with Instant::now()
RecvShred(p) ==
    /\ running
    /\ listener[p].pc = "recv"
    /\ arrivals < MaxArrivals
    /\ \E id \in NextIds :
          listener' = [listener EXCEPT ![p] = [pc |-> "send", shred_id |-> id, timestamp |-> now]]
    /\ arrivals' = arrivals + 1
    /\ UNCHANGED <<fixedVars, listenerLog, now, running, timer, queue, engineVars>>

\* a datagram is received that Shred::new_from_serialized_shred rejects
RecvMalformed(p) ==
    /\ running
    /\ listener[p].pc = "recv"
    /\ arrivals < MaxArrivals
    /\ arrivals' = arrivals + 1
    /\ UNCHANGED <<fixedVars, listenerLog, now, running, listener, timer, queue, engineVars>>

\* faulty variant: a full channel makes the listener drop the event (try_send)
SendShredLossy(p) ==
    /\ running
    /\ listener[p].pc = "send"
    /\ queue' = IF Len(queue) < QueueCap
                THEN Append(queue, ShredReceived(p, listener[p].shred_id, listener[p].timestamp))
                ELSE queue
    /\ listener' = [listener EXCEPT ![p] = [pc |-> "recv", shred_id |-> NoId, timestamp |-> 0]]
    /\ UNCHANGED <<fixedVars, listenerLog, now, running, arrivals, timer, engineVars>>

\* sender.send(event).await completes once the channel has a free slot
SendShred(p) ==
    /\ running
    /\ listener[p].pc = "send"
    /\ Len(queue) < QueueCap
    /\ queue' = Append(queue, ShredReceived(p, listener[p].shred_id, listener[p].timestamp))
    /\ listener' = [listener EXCEPT ![p] = [pc |-> "recv", shred_id |-> NoId, timestamp |-> 0]]
    /\ UNCHANGED <<fixedVars, listenerLog, now, running, arrivals, timer, engineVars>>

\* faulty variant: the tick is dropped when the channel is full (try_send)
TimerCleanupTickTrySend ==
    /\ running
    /\ timer.pc = "select"
    /\ now >= timer.next_cleanup
    /\ timer' = [timer EXCEPT !.next_cleanup = @ + timeout_secs]
    /\ queue' = IF Len(queue) < QueueCap THEN Append(queue, CleanupEvent) ELSE queue
    /\ UNCHANGED <<fixedVars, listenerLog, now, running, listener, arrivals, engineVars>>

\* The timer task: when an interval tick completes, processor_tx.send(..).await
\* enqueues the event at once if the channel has a free slot, and otherwise
\* suspends the task holding the event until TimerSend.
\* cleanup_interval.tick() completes
TimerCleanupTick ==
    /\ running
    /\ timer.pc = "select"
    /\ now >= timer.next_cleanup
    /\ LET armed == [timer EXCEPT !.next_cleanup = @ + timeout_secs]
       IN  IF Len(queue) < QueueCap
           THEN /\ queue' = Append(queue, CleanupEvent)
                /\ timer' = armed
           ELSE /\ queue' = queue
                /\ timer' = [armed EXCEPT !.pc = "send_cleanup"]
    /\ UNCHANGED <<fixedVars, listenerLog, now, running, listener, arrivals, engineVars>>

\* stats_interval.tick() completes
TimerStatsTick ==
    /\ running
    /\ timer.pc = "select"
    /\ now >= timer.next_stats
    /\ LET armed == [timer EXCEPT !.next_stats = @ + StatsPeriod]
       IN  IF Len(queue) < QueueCap
           THEN /\ queue' = Append(queue, StatsTickEvent)
                /\ timer' = armed
           ELSE /\ queue' = queue
                /\ timer' = [armed EXCEPT !.pc = "send_stats"]
    /\ UNCHANGED <<fixedVars, listenerLog, now, running, listener, arrivals, engineVars>>

\* a suspended processor_tx.send(..).await of the timer task completes
TimerSend ==
    /\ running
    /\ timer.pc \in {"send_cleanup", "send_stats"}
    /\ Len(queue) < QueueCap
    /\ queue' = Append(queue, IF timer.pc = "send_cleanup" THEN CleanupEvent ELSE StatsTickEvent)
    /\ timer' = [timer EXCEPT !.pc = "select"]
    /\ UNCHANGED <<fixedVars, listenerLog, now, running, listener, arrivals, engineVars>>

\* the processor receives a ShredReceived event and runs process_shred
ProcessShredReceived ==
    /\ running
    /\ queue # <<>>
    /\ Head(queue).kind = "ShredReceived"
    /\ LET e == Head(queue)
           after == process_shred(state, e.port_id, e.shred_id, e.timestamp)
           hit == after.matched_pairs # state.matched_pairs
       IN  /\ state' = after
           /\ emitted' = IF hit THEN emitted + 1 ELSE emitted
           /\ seenOn' = [seenOn EXCEPT ![e.port_id] = @ \cup {e.shred_id}]
           /\ matchesOf' = IF hit THEN [matchesOf EXCEPT ![e.shred_id] = @ + 1] ELSE matchesOf
           /\ lastMatchAt' = IF hit THEN [lastMatchAt EXCEPT ![e.shred_id] = now] ELSE lastMatchAt
           /\ sumDelays' = IF hit THEN sumDelays + after.delays[Len(after.delays)] ELSE sumDelays
           /\ firstSeen' = IF firstSeen[e.port_id][e.shred_id] = -1
                          THEN [firstSeen EXCEPT ![e.port_id][e.shred_id] = e.timestamp]
                          ELSE firstSeen
           /\ discarded' = (discarded \/ after = state)
           /\ lastOutcome' = IF hit THEN "matched"
                             ELSE IF after = state THEN "duplicate" ELSE "inserted"
    /\ snapshot' = NoSnapshot
    /\ queue' = Tail(queue)
    /\ UNCHANGED <<fixedVars, listenerLog, now, running, listener, arrivals, timer>>

\* some entry is older than the timeout by more than the boundary case
Overdue(m, at, timeout) == \E k \in DOMAIN m : at > m[k] + timeout

\* the processor receives a Cleanup event and runs cleanup_data
ProcessCleanup ==
    /\ running
    /\ queue # <<>>
    /\ Head(queue).kind = "Cleanup"
    /\ state' = cleanup_data(state, now, timeout_secs)
    /\ lastOutcome' = IF \/ Overdue(state.port0_data, now, timeout_secs)
                         \/ Overdue(state.port1_data, now, timeout_secs)
                      THEN "swept_overdue" ELSE "swept"
    /\ snapshot' = NoSnapshot
    /\ queue' = Tail(queue)
    /\ UNCHANGED <<fixedVars, listenerLog, now, running, listener, arrivals, timer, emitted,
                   seenOn, matchesOf, lastMatchAt, sumDelays, firstSeen, discarded>>

\* the processor receives a StatsTick event and runs report_stats
ProcessStatsTick ==
    /\ running
    /\ queue # <<>>
    /\ Head(queue).kind = "StatsTick"
    /\ snapshot' = report_stats(state)
    /\ lastOutcome' = "stats"
    /\ queue' = Tail(queue)
    /\ UNCHANGED <<fixedVars, listenerLog, now, running, listener, arrivals, timer, state, emitted,
                   seenOn, matchesOf, lastMatchAt, sumDelays, firstSeen, discarded>>

\* main's select! completes because a listener task has finished
MainExit ==
    /\ running
    /\ \E p \in Ports : listener[p].pc = "done"
    /\ running' = FALSE
    /\ UNCHANGED <<fixedVars, listenerLog, now, listener, arrivals, timer, queue, engineVars>>

Next ==
    \/ Tick
    \/ \E p \in Ports : BindOk(p)
    \/ \E p \in Ports : BindFail(p)
    \/ \E p \in Ports : RecvShred(p)
    \/ \E p \in Ports : RecvMalformed(p)
    \/ \E p \in Ports : SendShred(p)
    \/ TimerCleanupTick
    \/ TimerStatsTick
    \/ TimerSend
    \/ ProcessShredReceived
    \/ ProcessCleanup
    \/ ProcessStatsTick
    \/ MainExit

Spec == Init /\ [][Next]_vars

(* ------------------------------------------------- sustained arrival load *)
\* a datagram is received and decoded while datagrams never stop arriving on
\* either port: as RecvShred, outside the budget of MaxArrivals datagrams
RecvShredSustained(p) ==
    /\ running
    /\ listener[p].pc = "recv"
    /\ \E id \in NextIds :
          listener' = [listener EXCEPT ![p] = [pc |-> "send", shred_id |-> id, timestamp |-> now]]
    /\ UNCHANGED <<fixedVars, listenerLog, now, running, arrivals, timer, queue, engineVars>>

\* A burst of arrivals: both listeners bind and receive without end, no task
\* finishes, and all of it happens within one tick of the clock, so the timer
\* issues the one Cleanup and the one StatsTick that are due at the start.
LiveNext ==
    \/ \E p \in Ports : BindOk(p)
    \/ \E p \in Ports : RecvShredSustained(p)
    \/ \E p \in Ports : SendShred(p)
    \/ TimerCleanupTick
    \/ TimerStatsTick
    \/ TimerSend
    \/ ProcessShredReceived
    \/ ProcessCleanup
    \/ ProcessStatsTick

\* The processor task is scheduled whenever an event is waiting (weak fairness
\* of its three handlers).  The channel's permits are handed out by a FIFO
\* semaphore, so a timer task waiting in send is served before any listener
\* that starts to wait after it: listeners that refill the channel again and
\* again cannot overtake it for ever (strong fairness of TimerSend).
LiveSpec ==
    /\ Init
    /\ [][LiveNext]_vars
    /\ WF_vars(ProcessShredReceived)
    /\ WF_vars(ProcessCleanup)
    /\ WF_vars(ProcessStatsTick)
    /\ SF_vars(TimerSend)

(* ------------------------------------------ every task keeps up with time *)
TimelyInit ==
    /\ Boot
    /\ timeout_secs = TimelyTimeout
    /\ probe = NoProbe

\* nothing is left to do at the present time: no interval tick is due, the
\* timer and the listeners hold no event and the channel is empty
Idle ==
    /\ timer.pc = "select"
    /\ now < timer.next_cleanup
    /\ now < timer.next_stats
    /\ \A p \in Ports : listener[p].pc # "send"
    /\ queue = <<>>

\* the clock advances once every tick that was due has been issued and every
\* event produced has been sent and handled
TimelyTick ==
    /\ running
    /\ now < TimelyMaxTime
    /\ Idle
    /\ now' = now + 1
    /\ UNCHANGED <<fixedVars, listenerLog, running, listener, arrivals, timer, queue,
                   engineVars>>

TimelyNext ==
    \/ TimelyTick
    \/ \E p \in Ports : BindOk(p)
    \/ \E p \in Ports : RecvShred(p)
    \/ \E p \in Ports : SendShred(p)
    \/ TimerCleanupTick
    \/ TimerStatsTick
    \/ TimerSend
    \/ ProcessShredReceived
    \/ ProcessCleanup
    \/ ProcessStatsTick

TimelySpec == TimelyInit /\ [][TimelyNext]_vars

(* ------------------------------------- the average computation on its own *)
AvgInit ==
    /\ Boot
    /\ timeout_secs = Timeout
    /\ probe \in [hi : 0 .. MaxHigh, lo : 0 .. MaxLow, sum : SampleSums,
                  outcome : {"none"}, avg : {0}]

\* report_stats computes avg_delay from the sum and the length of delays
ComputeAverage ==
    /\ probe.outcome = "none"
    /\ LET r == avg_delay(probe.sum, [hi |-> probe.hi, lo |-> probe.lo])
       IN  probe' = [probe EXCEPT !.outcome = r.outcome, !.avg = r.avg]
    /\ UNCHANGED <<timeout_secs, listenerLog, now, running, listener, arrivals, timer,
                   queue, engineVars>>

AvgNext == ComputeAverage

AvgSpec == AvgInit /\ [][AvgNext]_vars

(* ------------------------------------------------ vocabulary of the claims *)
Abs(x) == IF x < 0 THEN -x ELSE x

\* this step is the processor taking an event of the given kind off the channel
EngineTakes(kind) == queue # <<>> /\ Head(queue).kind = kind /\ queue' = Tail(queue)

InMap(m, id) == id \in DOMAIN m

\* no Cleanup event has been handled yet: the timer has not issued one, or the
\* first one is still held by the timer task or waiting in the channel
NoCleanupProcessed ==
    \/ timer.next_cleanup = 0
    \/ /\ timer.next_cleanup = timeout_secs
       /\ \/ timer.pc = "send_cleanup"
          \/ \E i \in 1 .. Len(queue) : queue[i].kind = "Cleanup"

TotalMatches == LET RECURSIVE Upto(_)
                    Upto(n) == IF n = 0 THEN 0 ELSE matchesOf[n] + Upto(n - 1)
                IN  Upto(NumIds)

TypeOK ==
    /\ now \in Instants \cup 0 .. TimelyMaxTime
    /\ running \in BOOLEAN
    /\ arrivals \in 0 .. MaxArrivals
    /\ Len(queue) <= QueueCap
    /\ state.matched_pairs \in Nat

(* ----------------------------------------------------------------- claims *)

\* C1: when the processor handles a feed1 arrival (X, t1) while X is pending on
\* feed0 with time t0 <= t1 and is not yet in feed1's map, that very step counts
\* the match: matched_pairs grows by exactly one, one delay line is logged and
\* the recorded sample is exactly t1 - t0 (zero when t1 = t0).
C1_MatchOnSecondArrival ==
    [][ (/\ EngineTakes("ShredReceived")
         /\ Head(queue).port_id = 1
         /\ ~InMap(state.port1_data, Head(queue).shred_id)
         /\ InMap(state.port0_data, Head(queue).shred_id)
         /\ Head(queue).timestamp >= state.port0_data[Head(queue).shred_id])
        => (/\ state'.matched_pairs = state.matched_pairs + 1
            /\ emitted' = emitted + 1
            /\ state'.delays = Append(state.delays,
                   Head(queue).timestamp - state.port0_data[Head(queue).shred_id])
            /\ state'.port1_data[Head(queue).shred_id] = Head(queue).timestamp) ]_vars

\* C1 witness: a match was just counted whose sample is the positive difference
\* feed1 time minus feed0 time, so it fired on the feed1 event
C1_Witness ==
    /\ lastOutcome = "matched"
    /\ state.matched_pairs = 1
    /\ \E id \in ShredIds :
          /\ InMap(state.port0_data, id) /\ InMap(state.port1_data, id)
          /\ state.port1_data[id] - state.port0_data[id] = 1
          /\ state.delays = <<1>>

\* C2: whichever feed's event the processor handles second, the sample recorded
\* for a match is the absolute difference of the two listeners' timestamps.
C2_DelayIndependentOfOrder ==
    [][ (/\ EngineTakes("ShredReceived")
         /\ IsMatch(state, Head(queue).port_id, Head(queue).shred_id))
        => state'.delays = Append(state.delays,
               Abs(Head(queue).timestamp
                   - OtherMap(state, Head(queue).port_id)[Head(queue).shred_id])) ]_vars

\* C3: as long as only arrival events have been handled (no Cleanup yet), every
\* id has been counted as a match at most once, however many duplicates of it
\* arrived on either feed.
C3_AtMostOneMatchPerId ==
    NoCleanupProcessed => \A id \in ShredIds : matchesOf[id] <= 1

\* C3 witness: an id was matched, then a further arrival of it was handled and
\* discarded, all before any Cleanup
C3_Witness ==
    /\ NoCleanupProcessed
    /\ lastOutcome = "duplicate"
    /\ \E id \in ShredIds : matchesOf[id] = 1
    /\ state.matched_pairs = 1

\* C4: two matches of the same id are at least one retention timeout apart.
C4_OneMatchPerRetentionWindow ==
    [][ \A id \in ShredIds :
          (matchesOf'[id] = matchesOf[id] + 1 /\ lastMatchAt[id] # -1)
          => now - lastMatchAt[id] >= Timeout ]_vars

\* C5: handling an arrival whose id is already in its own feed's map changes
\* neither map, nor matched_pairs, nor delays, and logs no delay line.
C5_DuplicateIsNoOp ==
    [][ (/\ EngineTakes("ShredReceived")
         /\ InMap(OwnMap(state, Head(queue).port_id), Head(queue).shred_id))
        => (state' = state /\ emitted' = emitted /\ ~snapshot'.valid) ]_vars

\* C5 witness: the last event handled was discarded as a duplicate of a pending id
C5_Witness ==
    /\ lastOutcome = "duplicate"
    /\ \E id \in ShredIds : InMap(state.port0_data, id) \/ InMap(state.port1_data, id)

\* C6: a Cleanup handled at a time strictly greater than t + Timeout removes
\* every entry recorded with time t from both maps, matched or not, and leaves
\* matched_pairs as it was.
C6_CleanupEvictsOverdue ==
    [][ EngineTakes("Cleanup")
        => (/\ \A id \in DOMAIN state.port0_data :
                  now > state.port0_data[id] + Timeout => ~InMap(state'.port0_data, id)
            /\ \A id \in DOMAIN state.port1_data :
                  now > state.port1_data[id] + Timeout => ~InMap(state'.port1_data, id)
            /\ state'.matched_pairs = state.matched_pairs
            /\ state'.delays = state.delays) ]_vars

\* C6 witness (scenario B): an id seen on feed0 only stayed pending past the
\* timeout and the last Cleanup removed it; nothing was ever matched
C6_Witness ==
    /\ lastOutcome = "swept_overdue"
    /\ state.matched_pairs = 0
    /\ seenOn[0] # {} /\ seenOn[1] = {}
    /\ DOMAIN state.port0_data = {}

\* an id never handled from a feed is not in that feed's map and was never matched
FeedIsolated ==
    \A p \in Ports : \A id \in ShredIds :
        id \notin seenOn[p]
        => (~InMap(OwnMap(state, p), id) /\ matchesOf[id] = 0)

\* C7: an id that arrived on one feed only is never a key of the other feed's
\* map and never counted as a match; no step other than a Cleanup removes an
\* entry from a map, and every entry counts in the reported size of its feed.
C7_FeedIsolation ==
    /\ []FeedIsolated
    /\ [][ ~EngineTakes("Cleanup")
           => (/\ DOMAIN state.port0_data \subseteq DOMAIN state'.port0_data
               /\ DOMAIN state.port1_data \subseteq DOMAIN state'.port1_data) ]_vars
    /\ [](lastOutcome = "stats"
          => (/\ snapshot.port0 = Cardinality(DOMAIN state.port0_data)
              /\ snapshot.port1 = Cardinality(DOMAIN state.port1_data)))

\* C7 witness: an id handled from feed0 only is pending there, and the stats
\* just reported count it for feed0 and nothing for feed1
C7_Witness ==
    /\ lastOutcome = "stats"
    /\ seenOn[1] = {}
    /\ \E id \in seenOn[0] : InMap(state.port0_data, id)
    /\ snapshot.port0 = 1 /\ snapshot.port1 = 0 /\ snapshot.matched = 0

C9_StatsTickReadsOnly ==
    [][ EngineTakes("StatsTick")
        => (/\ state' = state
            /\ emitted' = emitted
            /\ snapshot'.valid
            /\ snapshot'.port0 = Cardinality(DOMAIN state.port0_data)
            /\ snapshot'.port1 = Cardinality(DOMAIN state.port1_data)
            /\ snapshot'.matched = state.matched_pairs) ]_vars

\* C9 witness: stats were just reported while one id is pending on feed1 only
\* after an earlier match was swept away
C9_Witness ==
    /\ lastOutcome = "stats"
    /\ snapshot.valid
    /\ snapshot.matched = 1
    /\ snapshot.port0 = 0 /\ snapshot.port1 = 1

\* the largest storage bound that is still below the number of matches a run
\* of MaxArrivals datagrams can produce (MaxArrivals - 1)
DelayStoreBound == MaxArrivals - 2

\* C10: the delay store never holds more than a fixed number of items, however
\* many matches have been counted.
C10_DelayStorageBounded == Len(state.delays) <= DelayStoreBound

\* C11: when exactly one listener has failed to bind and returned, the program
\* keeps running (the other listener, the timer and the processor stay alive).
C11_DegradedModeKeepsRunning ==
    Cardinality({p \in Ports : listener[p].pc = "done"}) = 1 => running

\* the processor has handled the event that is at the head of the channel
HeadHandled ==
    LET e == Head(queue)
    IN  /\ queue' = Tail(queue)
        /\ e.kind = "ShredReceived" => e.shred_id \in seenOn'[e.port_id]
        /\ e.kind = "Cleanup" => lastOutcome' \in {"swept", "swept_overdue"}
        /\ e.kind = "StatsTick" => snapshot'.valid

\* C12: the channel never holds more than QueueCap events and no event is lost
\* on the way to the processor: an event a listener or the timer produces is
\* held by that task or appended to the channel, a held event stays held,
\* unchanged, until it is appended, the channel grows only by an append at its
\* tail, and it shrinks only by the processor handling its head.
C12_QueueBoundedAndLossless ==
    /\ [](Len(queue) <= QueueCap)
    /\ [][ /\ \A p \in Ports :
                listener[p].pc = "send"
                => \/ listener'[p] = listener[p]
                   \/ queue' = Append(queue, ShredReceived(p, listener[p].shred_id,
                                                           listener[p].timestamp))
           /\ \A p \in Ports :
                (listener[p].pc = "recv" /\ listener'[p].pc # "recv")
                => (listener'[p].pc = "send" /\ listener'[p].timestamp = now)
           /\ timer'.next_cleanup # timer.next_cleanup
                => (timer'.pc = "send_cleanup" \/ queue' = Append(queue, CleanupEvent))
           /\ timer'.next_stats # timer.next_stats
                => (timer'.pc = "send_stats" \/ queue' = Append(queue, StatsTickEvent))
           /\ timer.pc = "send_cleanup"
                => (timer' = timer \/ queue' = Append(queue, CleanupEvent))
           /\ timer.pc = "send_stats"
                => (timer' = timer \/ queue' = Append(queue, StatsTickEvent))
           /\ queue' # queue
                => \/ /\ Len(queue') = Len(queue) + 1
                      /\ SubSeq(queue', 1, Len(queue)) = queue
                   \/ (queue # <<>> /\ HeadHandled) ]_vars

\* C12 witness: the channel is full of an event that was stamped earlier, the
\* processor has already handled events, and both a listener and the timer
\* are waiting in send with the event they produced
C12_Witness ==
    /\ Len(queue) = QueueCap
    /\ lastOutcome # "none"
    /\ Head(queue).kind = "ShredReceived" /\ Head(queue).timestamp < now
    /\ timer.pc = "send_cleanup"
    /\ \E p \in Ports : listener[p].pc = "send" /\ listener[p].timestamp < now

\* C13: computing the average delay never fails, whatever the number of
\* accumulated samples is, counts of 2^32 and more included.
C13_AverageNeverFails == probe.outcome # "panic"

\* C14: when a listener receives a datagram that the decoder rejects (the
\* socket delivered a datagram and the listener holds no event for it), no
\* event reaches the channel and the listener writes one more log line.
C14_DecodeFailureObservable ==
    [][ (arrivals' = arrivals + 1 /\ listener' = listener)
        => (queue' = queue /\ listenerLog' = listenerLog + 1) ]_vars

\* C15: with no Cleanup handled so far, when the processor handles the arrival
\* that finds its id pending on the other feed, stamped no earlier than the
\* first event handled for that id from the other feed, this is the only match
\* of the id and the sample recorded is the arrival's time minus the time of
\* that first event, whatever duplicates the other feed delivered after it.
C15_DelayFromFirstObservation ==
    [][ (/\ EngineTakes("ShredReceived")
         /\ NoCleanupProcessed
         /\ IsMatch(state, Head(queue).port_id, Head(queue).shred_id)
         /\ firstSeen[1 - Head(queue).port_id][Head(queue).shred_id] <= Head(queue).timestamp)
        => (/\ matchesOf[Head(queue).shred_id] = 0
            /\ matchesOf'[Head(queue).shred_id] = 1
            /\ state'.matched_pairs = state.matched_pairs + 1
            /\ emitted' = emitted + 1
            /\ state'.delays = Append(state.delays,
                   Head(queue).timestamp
                   - firstSeen[1 - Head(queue).port_id][Head(queue).shred_id])) ]_vars

\* C15 witness: feed0 delivered the id at time 0 and a duplicate that was
\* discarded, then feed1 delivered it at time 2: one match, sample 2 - 0
C15_Witness ==
    /\ lastOutcome = "matched"
    /\ NoCleanupProcessed
    /\ discarded
    /\ state.matched_pairs = 1
    /\ state.delays = <<2>>
    /\ \E id \in ShredIds :
          /\ firstSeen[0][id] = 0 /\ firstSeen[1][id] = 2
          /\ matchesOf[id] = 1

\* C16 as stated: in every state, the time stored for an id in a feed's map is
\* the time of the first event of that id the processor ever handled from that
\* feed.
C16_StoredIsFirstArrivalEver ==
    \A p \in Ports : \A id \in DOMAIN OwnMap(state, p) :
        OwnMap(state, p)[id] = firstSeen[p][id]

\* C16 amended: the time stored for an id in a feed's map is the time of the
\* arrival that inserted the entry, that is the first event of that id handled
\* from that feed since the id was last absent from the map (since the start,
\* or since a Cleanup evicted it).  An entry appears only by the processor
\* handling an arrival of that id from that feed, with that arrival's time; no
\* step changes the time of an entry that stays in the map; and as long as no
\* Cleanup has been handled the stored time is that of the first event ever.
C16_StoredIsFirstSinceEviction ==
    /\ [](NoCleanupProcessed => C16_StoredIsFirstArrivalEver)
    /\ [][ \A p \in Ports :
             /\ \A id \in DOMAIN OwnMap(state, p) \cap DOMAIN OwnMap(state', p) :
                   OwnMap(state', p)[id] = OwnMap(state, p)[id]
             /\ \A id \in DOMAIN OwnMap(state', p) \ DOMAIN OwnMap(state, p) :
                   /\ EngineTakes("ShredReceived")
                   /\ Head(queue).port_id = p
                   /\ Head(queue).shred_id = id
                   /\ OwnMap(state', p)[id] = Head(queue).timestamp ]_vars

\* C16 witness: an id first handled from feed0 at time 0 was evicted, arrived
\* again and was stored with the later time, and a further arrival of it has
\* just been discarded without changing the stored time
C16_Witness ==
    /\ lastOutcome = "duplicate"
    /\ ~NoCleanupProcessed
    /\ \E id \in ShredIds :
          /\ firstSeen[0][id] = 0
          /\ InMap(state.port0_data, id)
          /\ state.port0_data[id] = 1

\* every entry of map m is still in map n, with the same time
KeptIn(m, n) == \A id \in DOMAIN m : InMap(n, id) /\ n[id] = m[id]

\* C17: a step that is not the processor handling a Cleanup keeps every entry
\* of both maps; right after a match the matched id is a key of both maps; and
\* a Cleanup removes an entry only if its age has reached the timeout.
C17_OnlyCleanupRemoves ==
    [][ /\ ~EngineTakes("Cleanup")
           => (KeptIn(state.port0_data, state'.port0_data)
               /\ KeptIn(state.port1_data, state'.port1_data))
        /\ (EngineTakes("ShredReceived") /\ state'.matched_pairs # state.matched_pairs)
           => (InMap(state'.port0_data, Head(queue).shred_id)
               /\ InMap(state'.port1_data, Head(queue).shred_id))
        /\ EngineTakes("Cleanup")
           => \A p \in Ports : \A id \in DOMAIN OwnMap(state, p) :
                 InMap(OwnMap(state', p), id) <=> now - OwnMap(state, p)[id] < timeout_secs
      ]_vars

\* C17 witness: after a match a duplicate of the matched id was discarded and a
\* StatsTick handled, and the id is still a key of both maps
C17_Witness ==
    /\ lastOutcome = "stats"
    /\ discarded
    /\ snapshot.matched = 1 /\ snapshot.port0 = 1 /\ snapshot.port1 = 1
    /\ \E id \in ShredIds :
          /\ matchesOf[id] = 1
          /\ InMap(state.port0_data, id) /\ InMap(state.port1_data, id)

\* C20: matched_pairs equals the number of stored delay samples in every
\* state; a step changes either only by the processor counting a match, which
\* adds one to matched_pairs and appends one sample; handling a Cleanup or a
\* StatsTick changes neither.
C20_CounterEqualsSamples ==
    /\ [](state.matched_pairs = Len(state.delays))
    /\ [][ /\ \/ (state'.matched_pairs = state.matched_pairs /\ state'.delays = state.delays)
              \/ /\ EngineTakes("ShredReceived")
                 /\ state'.matched_pairs = state.matched_pairs + 1
                 /\ Len(state'.delays) = Len(state.delays) + 1
                 /\ SubSeq(state'.delays, 1, Len(state.delays)) = state.delays
           /\ (EngineTakes("Cleanup") \/ EngineTakes("StatsTick"))
              => (state'.matched_pairs = state.matched_pairs /\ state'.delays = state.delays)
         ]_vars

\* C20 witness: two matches were counted with a Cleanup handled in between,
\* and the second of them was counted on a feed0 arrival
C20_Witness ==
    /\ lastOutcome = "matched"
    /\ ~NoCleanupProcessed
    /\ state.matched_pairs = 2
    /\ Len(state.delays) = 2
    /\ \E id \in ShredIds : InMap(state.port0_data, id) /\ state.port0_data[id] = now

\* a Cleanup event is waiting in the channel
CleanupQueued == \E i \in 1 .. Len(queue) : queue[i].kind = "Cleanup"

\* C18: while both listeners keep receiving and refilling the channel, every
\* tick of cleanup_interval yields a Cleanup event that the timer task holds or
\* appends to the channel, a Cleanup the timer task holds is eventually in the
\* channel, and a Cleanup in the channel is eventually handled by the processor.
C18_CleanupNotStarved ==
    /\ [][ timer'.next_cleanup # timer.next_cleanup
           => (timer'.pc = "send_cleanup" \/ queue' = Append(queue, CleanupEvent)) ]_vars
    /\ (timer.pc = "send_cleanup") ~> CleanupQueued
    /\ CleanupQueued ~> (lastOutcome \in {"swept", "swept_overdue"})

\* C18 witness: the Cleanup that was due has been issued and has just been
\* handled, after arrivals were matched and duplicates discarded, while the
\* channel is full again and both listeners are waiting in send
C18_Witness ==
    /\ lastOutcome \in {"swept", "swept_overdue"}
    /\ timer.next_cleanup > now
    /\ timer.pc = "select"
    /\ state.matched_pairs >= 1
    /\ discarded
    /\ Len(queue) = QueueCap
    /\ \A p \in Ports : listener[p].pc = "send"

\* C19: when the timer issues every tick on time and every event is handled
\* before the clock advances, no entry of a map is older than the timeout.
C19_TimeoutIsMaxAge ==
    \A p \in Ports : \A id \in DOMAIN OwnMap(state, p) :
        now - OwnMap(state, p)[id] <= timeout_secs
====
